---- MODULE Spec2Model ----
(***************************************************************************)
(* A model of the hydrator package (hodgesds/hydrator): NewHydrator,       *)
(* Hydrator.Finder and Hydrator.Hydrate, with the goroutines Hydrate       *)
(* starts (one per dispatched field, one per element of a resolved         *)
(* sequence, one closer per result channel) and the buffered channel       *)
(* flowChan that gates them.                                               *)
(*                                                                         *)
(* Go types are flat sequences of constructors: <<"ptr","B">> is *B,       *)
(* <<"slice","ptr","D">> is []*D, <<"B">> is B, <<"int">> is int.          *)
(* A Go value is [ty, id, n, isnil]: its dynamic type, the ID of the       *)
(* record it is or points to (the first element's ID for a sequence, the   *)
(* number itself for an int), its length, and whether it is nil.           *)
(***************************************************************************)
EXTENDS Integers, Sequences, FiniteSets, TLC

\* ------------------------------------------------------------- bounds
\* Largest capacity given to the Concurrency option.
MaxCap == 2
\* Largest number of elements of a sequence returned by S.GetEs.
MaxLen == 2

\* ------------------------------------------------------------- constants
\* The capacity of flowChan when no Concurrency option is given.
DefaultConcurrency == 10

\* reflect's PkgPath of the named record types (all live in one package).
Pkg == "hydrator."

NoErr == "nil"
ErrInvalidObject == "Invalid object"
ErrAnonymous == "Attempted to hydrate anonymous field"
ErrKind == "Attempted to hydrate non-pointer field"
ErrPrivate == "Attempted to hydrate a private field"
ErrMismatch == "Attempted to hydrate with a wrong kind"
ErrHydration == "Hydration error"
ErrRecursive == "Recursive error"
ErrNonInt == "id is non int"

\* ------------------------------------------------------------- Go types
TInt == <<"int">>
PtrT(t) == <<"ptr">> \o t
SliceT(t) == <<"slice">> \o t
ArrayT(t) == <<"array">> \o t
Named(name) == <<name>>

\* reflect.Type.Kind
Kind(ty) ==
  IF ty = <<>> THEN "invalid"
  ELSE IF Head(ty) \in {"ptr", "slice", "array"} THEN Head(ty)
  ELSE IF ty = TInt THEN "int"
  ELSE "struct"

\* reflect.Type.Elem (of a pointer, slice or array type)
Elem(ty) == Tail(ty)

\* reflect.Type.Name: empty for an unnamed (composite) type
TypeName(ty) == IF Len(ty) = 1 THEN ty[1] ELSE ""

\* reflect.Type.PkgPath: empty for predeclared and unnamed types
PkgPath(ty) == IF Len(ty) = 1 /\ ty # TInt THEN Pkg ELSE ""

\* The key of the finders map: PkgPath()+Name()
TypeKey(ty) == PkgPath(ty) \o TypeName(ty)

\* reflect.Indirect on a type: the pointee of a pointer, else the type
IndirectT(ty) == IF Kind(ty) = "ptr" THEN Elem(ty) ELSE ty

\* ------------------------------------------------------------- Go values
Val(ty, id, n, isnil) == [ty |-> ty, id |-> id, n |-> n, isnil |-> isnil]
IntV(x) == Val(TInt, x, 0, FALSE)
PtrTo(t, x) == Val(PtrT(Named(t)), x, 0, FALSE)
StructV(t, x) == Val(Named(t), x, 0, FALSE)
SeqV(ty, base, n) == Val(ty, base, n, FALSE)
NilIface == Val(<<>>, 0, 0, TRUE)
\* The zero value of a type: nil for pointers and slices, no elements set
\* for arrays, 0 for int.
Zero(ty) == Val(ty, 0, 0, Kind(ty) \in {"ptr", "slice", "array"})
\* reflect.Value.Index(i).Interface(), i counted from 1
Index(v, i) == Val(Elem(v.ty), v.id + i - 1, 0, FALSE)

\* ------------------------------------------------------------- record types
\* A field: key is the keyword of its struct tag and tag the directive
\* written under it, as in B *B `hydrate:"BID"`.
DefaultTag == "hydrate"
Fld(name, ty, tag, anon, exp) ==
  [name |-> name, ty |-> ty, key |-> DefaultTag, tag |-> tag, anon |-> anon,
   exp |-> exp]
\* A field whose directive is written under another keyword.
Keyed(name, ty, key, tag) == [Fld(name, ty, tag, FALSE, TRUE) EXCEPT !.key = key]
\* Tag.Get reading the directive under whatever keyword it was written.
TagGetAnyKey(sf, key) == sf.tag

\* structField.Tag.Get(key)
TagGet(sf, key) == IF sf.key = key THEN sf.tag ELSE ""
Plain(name, ty) == Fld(name, ty, "", FALSE, TRUE)
Tagged(name, ty, tag) == Fld(name, ty, tag, FALSE, TRUE)
IDField == Plain("ID", TInt)

\* The fields of each record type, in declaration order.
StructFields(t) ==
  CASE t = "A" -> <<IDField, Tagged("B", PtrT(Named("B")), "BID"),
                    Plain("BID", TInt),
                    Tagged("C", PtrT(Named("C")), "GetC"),
                    Tagged("NP", PtrT(Named("C")), "GetNP")>>
    [] t = "B" -> <<IDField>>
    [] t = "C" -> <<IDField, Tagged("D", PtrT(Named("D")), "GetD"),
                    Tagged("DD", SliceT(PtrT(Named("D"))), "GetDD")>>
    [] t = "D" -> <<IDField>>
    [] t = "Private" ->
         <<IDField, Fld("c", PtrT(Named("C")), "GetC", FALSE, FALSE)>>
    [] t = "NonStruct" ->
         <<IDField, Tagged("C", PtrT(TInt), "GetC"),
           Tagged("D", SliceT(PtrT(TInt)), "GetD"),
           Tagged("E", ArrayT(PtrT(TInt)), "GetE")>>
    [] t = "NonPointer" -> <<IDField, Tagged("C", TInt, "GetC")>>
    [] t = "HydrationError" ->
         <<IDField, Tagged("C", PtrT(Named("C")), "GetError")>>
    [] t = "RecursiveErr" ->
         <<IDField, Tagged("R", PtrT(Named("RecursiveErrMethod")), "GetR")>>
    [] t = "RecursiveErrMethod" ->
         <<IDField, Tagged("C", PtrT(Named("C")), "GetC")>>
    [] t = "RecursiveSliceErr" ->
         <<IDField,
           Tagged("R", SliceT(PtrT(Named("RecursiveErrMethod"))), "GetR")>>
    [] t = "Tagged" ->
         <<IDField, Keyed("C", PtrT(Named("C")), "customTag", "GetC")>>
    \* Records beyond the test fixtures, built from the same parts.
    [] t = "Partial" ->
         <<IDField, Tagged("C", PtrT(Named("C")), "GetError"),
           Tagged("D", PtrT(Named("D")), "GetD"),
           Tagged("M", PtrT(Named("D")), "GetM")>>
    [] t = "Embedded" ->
         <<IDField, Tagged("D", PtrT(Named("D")), "GetD"),
           Fld("C", PtrT(Named("C")), "GetC", TRUE, TRUE),
           Tagged("B", PtrT(Named("B")), "BID"), Plain("BID", TInt)>>
    [] t = "S" -> <<IDField, Tagged("Es", SliceT(PtrT(Named("E"))), "GetEs")>>
    [] t = "E" -> <<IDField, Tagged("D", PtrT(Named("D")), "GetD")>>
    [] t = "V" -> <<IDField, Tagged("Ds", SliceT(Named("D")), "GetDs"),
                    Tagged("Es", ArrayT(Named("E")), "GetEs")>>
    [] t = "Mismatch" ->
         <<IDField, Tagged("S", SliceT(PtrT(Named("D"))), "GetArr"),
           Tagged("P", PtrT(Named("D")), "GetSlice")>>
    [] t = "FinderRec" ->
         <<Plain("RID", TInt),
           Tagged("R", PtrT(Named("RecursiveErrMethod")), "RID")>>
    [] t = "Seq" -> <<IDField, Tagged("DD", SliceT(PtrT(Named("D"))), "ID")>>
    [] t = "PrivF" ->
         <<IDField, Fld("b", PtrT(Named("B")), "BID", FALSE, FALSE),
           Plain("BID", TInt)>>
    [] t = "NonFinderMethod" ->
         <<IDField, Tagged("B", PtrT(Named("B")), "GetB")>>
    \* B's directive names the sibling D, itself resolved by GetD.
    [] t = "Chain" ->
         <<IDField, Tagged("D", PtrT(Named("D")), "GetD"),
           Tagged("B", PtrT(Named("B")), "D")>>
    \* An int field with a directive between two pointer fields.
    [] t = "NonPointerMid" ->
         <<IDField, Tagged("D", PtrT(Named("D")), "GetD"),
           Tagged("C", TInt, "GetC"),
           Tagged("E", PtrT(Named("D")), "GetD")>>
    \* A field switched off with "-" before a resolved one.
    [] t = "Dash" ->
         <<IDField, Tagged("X", PtrT(Named("D")), "-"),
           Tagged("D", PtrT(Named("D")), "GetD")>>
    \* Records whose method returns what the collector does not expect.
    [] t = "NilResult" -> <<IDField, Tagged("C", PtrT(Named("C")), "GetC")>>
    [] t = "NilPointer" -> <<IDField, Tagged("C", PtrT(Named("C")), "GetC")>>
    [] t = "WrongElem" ->
         <<IDField, Tagged("DD", SliceT(PtrT(Named("D"))), "GetDD")>>
    [] OTHER -> <<>>

NumField(t) == Len(StructFields(t))
FieldNames(t) ==
  LET fields == StructFields(t) IN {fields[i].name : i \in DOMAIN fields}
FieldDef(t, f) ==
  LET fields == StructFields(t)
  IN fields[CHOOSE i \in DOMAIN fields : fields[i].name = f]

\* ------------------------------------------------------------- methods
\* The receiver of method m of record type t: "ptr" for func (x *T) m,
\* "val" for func (x T) m, "none" when T has no such method.
MethodRecv(t, m) ==
  CASE t = "A" /\ m = "GetC" -> "ptr"
    [] t = "A" /\ m = "GetNP" -> "val"
    [] t = "C" /\ m \in {"GetD", "GetDD"} -> "ptr"
    [] t = "Private" /\ m = "GetC" -> "ptr"
    [] t = "NonStruct" /\ m \in {"GetC", "GetD", "GetE"} -> "ptr"
    [] t = "NonPointer" /\ m = "GetC" -> "ptr"
    [] t = "HydrationError" /\ m = "GetError" -> "ptr"
    [] t = "RecursiveErr" /\ m = "GetR" -> "ptr"
    [] t = "RecursiveErrMethod" /\ m = "GetC" -> "ptr"
    [] t = "RecursiveSliceErr" /\ m = "GetR" -> "ptr"
    [] t = "Partial" /\ m \in {"GetError", "GetD", "GetM"} -> "ptr"
    [] t = "Embedded" /\ m \in {"GetD", "GetC"} -> "ptr"
    [] t = "S" /\ m = "GetEs" -> "ptr"
    [] t = "E" /\ m = "GetD" -> "ptr"
    [] t = "V" /\ m \in {"GetDs", "GetEs"} -> "ptr"
    [] t = "Mismatch" /\ m \in {"GetArr", "GetSlice"} -> "ptr"
    [] t = "NonFinderMethod" /\ m = "GetB" -> "ptr"
    [] t = "Chain" /\ m = "GetD" -> "ptr"
    [] t = "NonPointerMid" /\ m \in {"GetD", "GetC"} -> "ptr"
    [] t = "Tagged" /\ m = "GetC" -> "ptr"
    [] t = "Dash" /\ m = "GetD" -> "ptr"
    [] t \in {"NilResult", "NilPointer"} /\ m = "GetC" -> "ptr"
    [] t = "WrongElem" /\ m = "GetDD" -> "ptr"
    [] OTHER -> "none"

\* The number of values method m of record type t returns: a resolver
\* returns a value and an error, NonFinderMethod.GetB a value alone.
NumOut(t, m) == IF t = "NonFinderMethod" /\ m = "GetB" THEN 1 ELSE 2

\* objType.MethodByName(tag): the method set of *T holds every method of T,
\* the method set of T only those with a value receiver.
MethodByName(t, byptr, m) ==
  IF byptr THEN MethodRecv(t, m) # "none" ELSE MethodRecv(t, m) = "val"

Out(val, err) == [val |-> val, err |-> err]

\* What method m of record type t returns; self is the receiver's fields.
MethodCall(t, m, self) ==
  CASE t = "A" -> Out(PtrTo("C", 3), NoErr)
    [] t = "C" /\ m = "GetD" -> Out(PtrTo("D", 4), NoErr)
    [] t = "C" /\ m = "GetDD" ->
         Out(SeqV(SliceT(PtrT(Named("D"))), 5, 1), NoErr)
    [] t = "Private" -> Out(PtrTo("C", 3), NoErr)
    [] t = "NonStruct" /\ m = "GetC" -> Out(Val(PtrT(TInt), 123, 0, FALSE), NoErr)
    [] t = "NonStruct" /\ m = "GetD" -> Out(SeqV(SliceT(PtrT(TInt)), 1, 2), NoErr)
    [] t = "NonStruct" /\ m = "GetE" -> Out(SeqV(ArrayT(PtrT(TInt)), 3, 2), NoErr)
    [] t = "NonPointer" -> Out(IntV(3), NoErr)
    [] t = "HydrationError" -> Out(PtrTo("C", 1), ErrHydration)
    [] t = "RecursiveErr" -> Out(PtrTo("RecursiveErrMethod", 3), NoErr)
    [] t = "RecursiveErrMethod" -> Out(PtrTo("C", 3), ErrRecursive)
    [] t = "RecursiveSliceErr" ->
         Out(SeqV(SliceT(PtrT(Named("RecursiveErrMethod"))), 3, 1), NoErr)
    [] t = "Partial" /\ m = "GetError" -> Out(PtrTo("C", 1), ErrHydration)
    [] t = "Partial" /\ m = "GetD" -> Out(PtrTo("D", 4), NoErr)
    \* GetM returns a D where the field wants a *D
    [] t = "Partial" /\ m = "GetM" -> Out(StructV("D", 9), NoErr)
    [] t = "Embedded" /\ m = "GetD" -> Out(PtrTo("D", 4), NoErr)
    [] t = "Embedded" /\ m = "GetC" -> Out(PtrTo("C", 3), NoErr)
    \* GetEs returns s.ID elements &E{ID: 0}, &E{ID: 1}, ...
    [] t = "S" -> Out(SeqV(SliceT(PtrT(Named("E"))), 0, self["ID"].id), NoErr)
    \* GetD of E fails for the element whose ID is 0
    [] t = "E" -> IF self["ID"].id = 0 THEN Out(NilIface, ErrRecursive)
                  ELSE Out(PtrTo("D", 4), NoErr)
    [] t = "V" /\ m = "GetDs" -> Out(SeqV(SliceT(Named("D")), 5, 2), NoErr)
    [] t = "V" /\ m = "GetEs" -> Out(SeqV(ArrayT(Named("E")), 1, 2), NoErr)
    [] t = "Mismatch" /\ m = "GetArr" ->
         Out(SeqV(ArrayT(PtrT(Named("D"))), 5, 2), NoErr)
    [] t = "Mismatch" /\ m = "GetSlice" ->
         Out(SeqV(SliceT(PtrT(Named("D"))), 7, 1), NoErr)
    \* GetB returns B{ID: 123} and nothing else
    [] t = "NonFinderMethod" -> Out(StructV("B", 123), NoErr)
    [] t = "Chain" -> Out(PtrTo("D", 4), NoErr)
    [] t = "NonPointerMid" /\ m = "GetD" -> Out(PtrTo("D", 4), NoErr)
    [] t = "NonPointerMid" /\ m = "GetC" -> Out(IntV(3), NoErr)
    [] t = "Tagged" -> Out(PtrTo("C", 3), NoErr)
    [] t = "Dash" -> Out(PtrTo("D", 4), NoErr)
    \* return nil, nil
    [] t = "NilResult" -> Out(NilIface, NoErr)
    \* return (*C)(nil), nil
    [] t = "NilPointer" -> Out(Zero(PtrT(Named("C"))), NoErr)
    \* return []*B{&B{ID: 5}}, nil for a field of type []*D
    [] t = "WrongElem" -> Out(SeqV(SliceT(PtrT(Named("B"))), 5, 1), NoErr)
    [] OTHER -> Out(NilIface, NoErr)

\* ------------------------------------------------------------- finders
\* A finder is <<shape, T>>: the test finders return &T{ID: id} ("ptr") or
\* T{ID: id} ("val") for an int id, and an error for anything else.
NoFinder == <<>>
FinderCall(fn, in) ==
  IF in.ty # TInt THEN Out(NilIface, ErrNonInt)
  ELSE IF fn[1] = "ptr" THEN Out(PtrTo(fn[2], in.id), NoErr)
  ELSE Out(StructV(fn[2], in.id), NoErr)

\* The registrations a behaviour may make: <<sample object, finder>>.
Registrations ==
  { <<StructV("B", 0), <<"ptr", "B">> >>,
    <<PtrTo("B", 0), <<"val", "B">> >>,
    <<StructV("C", 0), <<"ptr", "C">> >>,
    <<StructV("RecursiveErrMethod", 0), <<"ptr", "RecursiveErrMethod">> >>,
    <<SeqV(SliceT(PtrT(Named("B"))), 0, 0), <<"ptr", "B">> >> }

\* Every key the finders map is read or written under.
Keys ==
  {TypeKey(IndirectT(r[1].ty)) : r \in Registrations} \cup
  {TypeKey(Named(t)) : t \in {"B", "C", "D", "E", "RecursiveErrMethod"}} \cup
  {TypeKey(TInt), ""}

\* ------------------------------------------------------------- objects
\* Int fields other than ID hold 123, as BID in the tests' &A{ID: 1, BID: 123}.
SiblingValue == 123

\* The value of field sf in a record built as T{ID: id}.
NewField(sf, id) ==
  IF sf.name = "ID" THEN IntV(id)
  ELSE IF sf.ty = TInt THEN IntV(SiblingValue)
  ELSE Zero(sf.ty)

\* The fields of a record of type t built as T{ID: id}.
NewObject(t, id) == [f \in FieldNames(t) |-> NewField(FieldDef(t, f), id)]

\* The objects Hydrate is called with.
Roots ==
  {PtrTo(t, 1) : t \in {"A", "Private", "NonStruct", "NonPointer",
                        "HydrationError", "RecursiveErr", "RecursiveSliceErr",
                        "Partial", "Embedded", "V", "Mismatch", "Seq", "PrivF",
                        "NonFinderMethod", "Chain", "NonPointerMid",
                        "Tagged", "Dash", "NilResult", "NilPointer",
                        "WrongElem"}}
  \cup {StructV(t, 1) : t \in {"A", "Private", "NonPointer", "HydrationError",
                               "RecursiveErr", "RecursiveSliceErr", "B",
                               "Tagged"}}
  \cup {PtrTo("S", n) : n \in 1..MaxLen}
  \cup {Val(<<"FinderRec">>, 1, 0, FALSE), PtrTo("FinderRec", 1)}
  \cup {IntV(1), SeqV(SliceT(PtrT(Named("NonStruct"))), 1, 1),
        Val(PtrT(PtrT(Named("A"))), 1, 0, FALSE)}

\* ------------------------------------------------------------- state
VARIABLES
  cap,       \* cap(h.flowChan), fixed by NewHydrator
  tag,       \* h.tag, fixed by NewHydrator
  finders,   \* h.finders: key -> finder, NoFinder where the key is absent
  flowChan,  \* len(h.flowChan): the gate slots taken
  frames,    \* the Hydrate calls: path of the object -> the call's locals
  tasks,     \* the goroutines: <<path, field, index>> -> their state
  mem        \* the objects: path -> field name -> value

vars == <<cap, tag, finders, flowChan, frames, tasks, mem>>

\* The root object has path <<>>; the record a field f resolves to has its
\* parent's path extended by <<f, 0>>, element i of a resolved sequence by
\* <<f, i>>.
Root == <<>>
Child(p, f, i) == Append(p, <<f, i>>)
NoRes == [field |-> "", val |-> NilIface, err |-> NoErr]
Empty == [x \in {} |-> 0]

\* The options: Concurrency(c) makes flowChan unless it is made already,
\* Tag(t) sets the tag. A hydrator under construction is [tag, flowChan],
\* flowChan being <<>> while nil and <<capacity>> once made.
Concurrency(c) == [opt |-> "Concurrency", c |-> c, tag |-> ""]
Tag(t) == [opt |-> "Tag", c |-> 0, tag |-> t]
Opt(o, h) ==
  IF o.opt = "Tag" THEN [h EXCEPT !.tag = o.tag]
  ELSE IF h.flowChan = <<>> THEN [h EXCEPT !.flowChan = <<o.c>>]
  ELSE h

RECURSIVE ApplyOpts(_, _)
ApplyOpts(opts, h) ==
  IF opts = <<>> THEN h ELSE ApplyOpts(Tail(opts), Opt(Head(opts), h))

\* NewHydrator(opts...): the tag is "hydrate" unless a Tag option sets it,
\* the first Concurrency option sizes flowChan, and without one the
\* capacity is 10.
NewHydrator(opts) ==
  LET h == ApplyOpts(opts, [tag |-> DefaultTag, flowChan |-> <<>>])
  IN [tag |-> h.tag,
      cap |-> IF h.flowChan = <<>> THEN DefaultConcurrency ELSE h.flowChan[1]]

\* The options a hydrator is built with.
OptSeqs ==
  {<<>>} \cup {<<Concurrency(c)>> : c \in 1..MaxCap}
         \cup {<<Concurrency(c), Concurrency(d)>> :
                 c \in 1..MaxCap, d \in 1..MaxCap}
         \cup {<<Tag("customTag")>>, <<Tag("customTag"), Tag(DefaultTag)>>}
         \cup {<<Concurrency(c), Tag("customTag")>> : c \in 1..MaxCap}

\* HydrateEntry with the test of the root's kind left out.
HydrateEntryUnchecked(obj) ==
  LET ind == IndirectT(obj.ty)
  IN [obj |-> obj, t |-> TypeName(ind), byptr |-> Kind(obj.ty) = "ptr",
      pc |-> "loop", i |-> 1, err |-> NoErr, wg |-> 0, resChan |-> <<>>,
      res |-> NoRes, swg |-> 0, sliceResChan |-> <<>>]

\* Hydrate's entry: the locals of a call on obj. A root that is neither a
\* record nor a pointer to one returns ErrInvalidObject at once.
HydrateEntry(obj) ==
  LET ind == IndirectT(obj.ty)
      ok == Kind(ind) = "struct"
  IN [obj |-> obj,
      t |-> IF ok THEN TypeName(ind) ELSE "",
      byptr |-> Kind(obj.ty) = "ptr",
      pc |-> IF ok THEN "loop" ELSE "done",
      i |-> 1,
      err |-> IF ok THEN NoErr ELSE ErrInvalidObject,
      wg |-> 0, resChan |-> <<>>,
      res |-> NoRes,
      swg |-> 0, sliceResChan |-> <<>>]

\* The memory of the object a call works on (a copy when passed by value).
EntryMem(obj) ==
  LET ind == IndirectT(obj.ty)
  IN IF Kind(ind) = "struct" THEN NewObject(TypeName(ind), obj.id) ELSE Empty

Init ==
  /\ \E opts \in OptSeqs : /\ cap = NewHydrator(opts).cap
                           /\ tag = NewHydrator(opts).tag
  /\ finders = [k \in Keys |-> NoFinder]
  /\ flowChan = 0
  /\ frames = Empty
  /\ tasks = Empty
  /\ mem = Empty

\* hydrateTag := structField.Tag.Get(h.tag), and
\* hydrateTag == "" || hydrateTag == "-": the iteration does nothing.
Untagged(sf) ==
  LET hydrateTag == TagGet(sf, tag) IN hydrateTag = "" \/ hydrateTag = "-"

\* The keys under which the loop over the fields of obj, from field i on,
\* can look a finder up: those of the element types of the fields that
\* carry a directive and are pointers, slices or arrays.
PendingKeys(obj, i) ==
  LET t == TypeName(IndirectT(obj.ty))
  IN {TypeKey(Elem(StructFields(t)[j].ty)) :
        j \in {k \in i..NumField(t) :
                 /\ ~Untagged(StructFields(t)[k])
                 /\ Kind(StructFields(t)[k].ty) \in {"ptr", "slice", "array"}}}

\* h.Finder(obj, finder): store finder under the key of obj's indirect type,
\* replacing what the key held. The write is made under h.Lock() and the
\* lookup under h.RLock(), so a registration is one step, taken before
\* Hydrate is called or while it enumerates the fields. A registration the
\* call can no longer read (under a key none of the fields still to be
\* enumerated has) is left out.
Finder(obj, finder) ==
  /\ frames # Empty =>
       /\ frames[Root].pc = "loop"
       /\ TypeKey(IndirectT(obj.ty)) \in
            PendingKeys(frames[Root].obj, frames[Root].i)
  /\ finders' = [finders EXCEPT ![TypeKey(IndirectT(obj.ty))] = finder]
  /\ UNCHANGED <<cap, tag, flowChan, frames, tasks, mem>>

\* The caller's h.Hydrate(obj), on an object whose fields the registered
\* finders are for.
Hydrate(obj) ==
  /\ frames = Empty
  /\ \A k \in Keys : finders[k] # NoFinder => k \in PendingKeys(obj, 1)
  /\ frames' = (Root :> HydrateEntry(obj))
  /\ mem' = (Root :> EntryMem(obj))
  /\ UNCHANGED <<cap, tag, finders, flowChan, tasks>>

\* A goroutine started for a field (index 0) or a sequence element.
Task(kind, hydrateTag, fn) ==
  [kind |-> kind, tag |-> hydrateTag, fn |-> fn, pc |-> "wait",
   in |-> NilIface, res |-> NoRes]

\* Dispatch with the test for an embedded field left out.
DispatchEmbedded(fr, sf, fmap) ==
  IF Untagged(sf) THEN "skip"
  ELSE IF ~fr.byptr THEN "anonymous"
  ELSE IF Kind(sf.ty) \notin {"ptr", "slice", "array"} THEN "kind"
  ELSE IF MethodByName(fr.t, fr.byptr, sf.tag) THEN "method"
  ELSE IF fmap[TypeKey(Elem(sf.ty))] = NoFinder THEN "nofinder"
  ELSE "finder"

\* Dispatch with the registry asked before the method set.
DispatchFinderFirst(fr, sf, fmap) ==
  IF Untagged(sf) THEN "skip"
  ELSE IF sf.anon \/ ~fr.byptr THEN "anonymous"
  ELSE IF Kind(sf.ty) \notin {"ptr", "slice", "array"} THEN "kind"
  ELSE IF fmap[TypeKey(Elem(sf.ty))] # NoFinder THEN "finder"
  ELSE IF MethodByName(fr.t, fr.byptr, sf.tag) THEN "method"
  ELSE "nofinder"

\* Dispatch with the test of the object's settability left out.
DispatchByValue(fr, sf, fmap) ==
  IF Untagged(sf) THEN "skip"
  ELSE IF sf.anon THEN "anonymous"
  ELSE IF Kind(sf.ty) \notin {"ptr", "slice", "array"} THEN "kind"
  ELSE IF MethodByName(fr.t, fr.byptr, sf.tag) THEN "method"
  ELSE IF fmap[TypeKey(Elem(sf.ty))] = NoFinder THEN "nofinder"
  ELSE "finder"

\* Dispatch with the test of the field's kind left out.
DispatchAnyKind(fr, sf, fmap) ==
  IF Untagged(sf) THEN "skip"
  ELSE IF sf.anon \/ ~fr.byptr THEN "anonymous"
  ELSE IF MethodByName(fr.t, fr.byptr, sf.tag) THEN "method"
  ELSE IF Kind(sf.ty) \notin {"ptr", "slice", "array"} THEN "nofinder"
  ELSE IF fmap[TypeKey(Elem(sf.ty))] = NoFinder THEN "nofinder"
  ELSE "finder"

\* What one iteration of the loop over the fields does with field sf:
\* "skip", "anonymous", "kind", "method", "nofinder" or "finder".
Dispatch(fr, sf, fmap) ==
  IF Untagged(sf) THEN "skip"
  ELSE IF sf.anon \/ ~fr.byptr THEN "anonymous"
  ELSE IF Kind(sf.ty) \notin {"ptr", "slice", "array"} THEN "kind"
  ELSE IF MethodByName(fr.t, fr.byptr, sf.tag) THEN "method"
  ELSE IF fmap[TypeKey(Elem(sf.ty))] = NoFinder THEN "nofinder"
  ELSE "finder"

\* The first field at or after index i that carries a directive, or
\* NumField+1: the iterations before it only `continue`.
NextTagged(t, i) ==
  LET js == {j \in i..NumField(t) : ~Untagged(StructFields(t)[j])}
  IN IF js = {} THEN NumField(t) + 1
     ELSE CHOOSE j \in js : \A k \in js : j <= k

\* The pc after the iteration of field j: the loop while a field with a
\* directive is left, else the range over resChan.
AfterField(t, j) ==
  IF NextTagged(t, j + 1) > NumField(t) THEN "range" ELSE "loop"

\* The iterations of `for i := 0; i < indObjVal.NumField(); i++` up to and
\* including the next field that carries a directive.
LoopStep(p) ==
  /\ p \in DOMAIN frames
  /\ frames[p].pc = "loop"
  /\ LET fr == frames[p]
         j == NextTagged(fr.t, fr.i)
     IN IF j > NumField(fr.t)
        THEN /\ frames' = [frames EXCEPT ![p].i = j, ![p].pc = "range"]
             /\ UNCHANGED tasks
        ELSE LET sf == StructFields(fr.t)[j]
                 d == Dispatch(fr, sf, finders)
                 tk == <<p, sf.name, 0>>
             IN CASE d = "nofinder" ->
                       /\ frames' = [frames EXCEPT
                                       ![p].i = j + 1,
                                       ![p].pc = AfterField(fr.t, j)]
                       /\ UNCHANGED tasks
                  [] d = "anonymous" ->
                       /\ frames' = [frames EXCEPT ![p].i = j,
                                                   ![p].err = ErrAnonymous,
                                                   ![p].pc = "range"]
                       /\ UNCHANGED tasks
                  [] d = "kind" ->
                       /\ frames' = [frames EXCEPT ![p].i = j,
                                                   ![p].err = ErrKind,
                                                   ![p].pc = "range"]
                       /\ UNCHANGED tasks
                  [] OTHER ->
                       /\ frames' = [frames EXCEPT
                                       ![p].i = j + 1,
                                       ![p].wg = fr.wg + 1,
                                       ![p].pc = AfterField(fr.t, j)]
                       /\ tasks' = (tk :> Task(d, sf.tag,
                                       IF d = "finder"
                                       THEN finders[TypeKey(Elem(sf.ty))]
                                       ELSE NoFinder)) @@ tasks
  /\ UNCHANGED <<cap, tag, finders, flowChan, mem>>

\* Acquire with the finder handed the object, as a method is, instead of
\* the sibling field its directive names.
AcquireObjInput(tk) ==
  /\ tk \in DOMAIN tasks
  /\ tasks[tk].kind \in {"method", "finder"}
  /\ tasks[tk].pc = "wait"
  /\ flowChan < cap
  /\ flowChan' = flowChan + 1
  /\ tasks' = [tasks EXCEPT ![tk].pc = "call", ![tk].in = frames[tk[1]].obj]
  /\ UNCHANGED <<cap, tag, finders, frames, mem>>

\* Acquire with the send on flowChan left out of the goroutine.
AcquireUngated(tk) ==
  /\ tk \in DOMAIN tasks
  /\ tasks[tk].kind \in {"method", "finder"}
  /\ tasks[tk].pc = "wait"
  /\ flowChan' = flowChan + 1
  /\ tasks' = [tasks EXCEPT ![tk].pc = "call",
                            ![tk].in = IF tasks[tk].kind = "finder"
                                       THEN mem[tk[1]][tasks[tk].tag]
                                       ELSE frames[tk[1]].obj]
  /\ UNCHANGED <<cap, tag, finders, frames, mem>>

\* A field goroutine takes a gate slot (flowChan <- struct{}{}) and starts
\* its call: a finder's argument is the sibling field read at that moment,
\* a method's argument is the object.
Acquire(tk) ==
  /\ tk \in DOMAIN tasks
  /\ tasks[tk].kind \in {"method", "finder"}
  /\ tasks[tk].pc = "wait"
  /\ flowChan < cap
  /\ flowChan' = flowChan + 1
  /\ tasks' = [tasks EXCEPT ![tk].pc = "call",
                            ![tk].in = IF tasks[tk].kind = "finder"
                                       THEN mem[tk[1]][tasks[tk].tag]
                                       ELSE frames[tk[1]].obj]
  /\ UNCHANGED <<cap, tag, finders, frames, mem>>

\* The result a field goroutine sends on resChan.
CallResult(p, f, task) ==
  LET out == IF task.kind = "method"
             THEN MethodCall(frames[p].t, task.tag, mem[p])
             ELSE FinderCall(task.fn, task.in)
  IN [field |-> f, val |-> out.val, err |-> out.err]

\* The call returns and the goroutine sends its result on resChan, whose
\* buffer holds one result per field, so the send never blocks. A method's
\* results are read as vals[0] and vals[1]: with fewer than two the index
\* is out of range and the goroutine panics.
Publish(tk) ==
  /\ tk \in DOMAIN tasks
  /\ tasks[tk].kind \in {"method", "finder"}
  /\ tasks[tk].pc = "call"
  /\ IF tasks[tk].kind = "method"
        /\ NumOut(frames[tk[1]].t, tasks[tk].tag) < 2
     THEN /\ tasks' = [tasks EXCEPT ![tk].pc = "panic"]
          /\ UNCHANGED frames
     ELSE LET res == CallResult(tk[1], tk[2], tasks[tk])
          IN /\ tasks' = [tasks EXCEPT ![tk].pc = "sent", ![tk].res = res]
             /\ frames' = [frames EXCEPT
                             ![tk[1]].resChan =
                               Append(frames[tk[1]].resChan, res)]
  /\ UNCHANGED <<cap, tag, finders, flowChan, mem>>

\* Release that returns early, without the receive from flowChan, when the
\* call gave an error.
ReleaseOnSuccess(tk) ==
  /\ tk \in DOMAIN tasks
  /\ tasks[tk].kind \in {"method", "finder"}
  /\ tasks[tk].pc = "sent"
  /\ flowChan' = IF tasks[tk].res.err = NoErr THEN flowChan - 1 ELSE flowChan
  /\ tasks' = [tasks EXCEPT ![tk].pc = "done"]
  /\ frames' = [frames EXCEPT ![tk[1]].wg = frames[tk[1]].wg - 1]
  /\ UNCHANGED <<cap, tag, finders, mem>>

\* The goroutine gives its slot back (<-flowChan) and ends (wg.Done).
Release(tk) ==
  /\ tk \in DOMAIN tasks
  /\ tasks[tk].kind \in {"method", "finder"}
  /\ tasks[tk].pc = "sent"
  /\ flowChan' = flowChan - 1
  /\ tasks' = [tasks EXCEPT ![tk].pc = "done"]
  /\ frames' = [frames EXCEPT ![tk[1]].wg = frames[tk[1]].wg - 1]
  /\ UNCHANGED <<cap, tag, finders, mem>>

\* field.CanSet(): the object was passed by pointer and the field is exported.
CanSet(fr, f) == fr.byptr /\ FieldDef(fr.t, f).exp

\* resType.Kind() == reflect.Ptr && resVal.Elem().Type().Kind() == reflect.Struct
IsRecordPtr(v) == Kind(v.ty) = "ptr" /\ Kind(Elem(v.ty)) = "struct"

\* A slice or array whose elements are records or pointers to records.
IsRecordSeq(v) ==
  /\ Kind(v.ty) \in {"array", "slice"}
  /\ \/ Kind(Elem(v.ty)) = "struct"
     \/ Kind(Elem(v.ty)) = "ptr" /\ Kind(Elem(Elem(v.ty))) = "struct"

\* KindMatches with the check left out.
KindMatchesAlways(fty, v) == TRUE

\* field.Kind() != resVal.Kind() is the only check made before field.Set.
KindMatches(fty, v) == Kind(fty) = Kind(v.ty)

\* field.Set(resVal) panics unless resVal's type is assignable to the
\* field's: for the types here, unless they are the same type.
SetPanics(fty, v) == Kind(fty) = Kind(v.ty) /\ v.ty # fty

\* ApplyErr that keeps an error recorded earlier instead of overwriting it.
ApplyErrKeepsFirst(fr, res) ==
  IF KindMatches(FieldDef(fr.t, res.field).ty, res.val) \/ fr.err # NoErr
  THEN fr.err
  ELSE ErrMismatch

\* The end of one iteration of the range over resChan: the kind check and
\* field.Set(resVal). Gives the call's error and the object's memory.
ApplyErr(fr, res) ==
  IF KindMatches(FieldDef(fr.t, res.field).ty, res.val) THEN fr.err
  ELSE ErrMismatch
ApplyMem(fr, res, obj) ==
  IF KindMatches(FieldDef(fr.t, res.field).ty, res.val)
  THEN [obj EXCEPT ![res.field] = res.val]
  ELSE obj

\* Triage that assigns a pointer to a record without hydrating the record.
TriageNoRecursion(fr, res) ==
  IF res.err # NoErr THEN "error"
  ELSE IF ~CanSet(fr, res.field) THEN "private"
  ELSE IF IsRecordSeq(res.val) THEN "sequence"
  ELSE "apply"

\* Triage that keeps the value of a result that carries an error.
TriageKeepsValue(fr, res) ==
  IF res.err # NoErr /\ res.val = NilIface THEN "error"
  ELSE IF ~CanSet(fr, res.field) THEN "private"
  ELSE IF IsRecordPtr(res.val) THEN "recurse"
  ELSE IF IsRecordSeq(res.val) THEN "sequence"
  ELSE "apply"

\* resVal.Type() panics on the zero Value reflect.ValueOf gives for a nil
\* interface, and resVal.Elem().Type() on the zero Value Elem gives for a
\* nil pointer.
TypePanics(v) == v.ty = <<>> \/ (Kind(v.ty) = "ptr" /\ v.isnil)

\* How the range over resChan treats a result before the kind check:
\* "error", "private", "panic", "recurse", "sequence" or "apply".
Triage(fr, res) ==
  IF res.err # NoErr THEN "error"
  ELSE IF ~CanSet(fr, res.field) THEN "private"
  ELSE IF TypePanics(res.val) THEN "panic"
  ELSE IF IsRecordPtr(res.val) THEN "recurse"
  ELSE IF IsRecordSeq(res.val) THEN "sequence"
  ELSE "apply"

\* ElemTasks with the loop over the elements stopping one short.
ElemTasksButLast(p, res) ==
  [tk \in {<<p, res.field, i>> : i \in 1..(res.val.n - 1)} |->
     Task("elem", "", NoFinder)]

\* The goroutines started for the elements of a resolved sequence.
ElemTasks(p, res) ==
  [tk \in {<<p, res.field, i>> : i \in 1..res.val.n} |->
     Task("elem", "", NoFinder)]

\* `for res := range resChan` receives one result and handles it up to the
\* point where it hydrates the value: a pointer to a record by a call of
\* Hydrate, a sequence of records by one goroutine per element.
RecvResult(p) ==
  /\ p \in DOMAIN frames
  /\ frames[p].pc = "range"
  /\ frames[p].resChan # <<>>
  /\ LET fr == frames[p]
         res == Head(fr.resChan)
         rest == Tail(fr.resChan)
         how == Triage(fr, res)
         c == Child(p, res.field, 0)
     IN CASE how = "error" ->
               /\ frames' = [frames EXCEPT ![p].resChan = rest,
                                           ![p].err = res.err]
               /\ UNCHANGED <<tasks, mem>>
          [] how = "private" ->
               /\ frames' = [frames EXCEPT ![p].resChan = rest,
                                           ![p].err = ErrPrivate]
               /\ UNCHANGED <<tasks, mem>>
          [] how = "panic" ->
               /\ frames' = [frames EXCEPT ![p].resChan = rest,
                                           ![p].res = res,
                                           ![p].pc = "panic"]
               /\ UNCHANGED <<tasks, mem>>
          [] how = "recurse" ->
               /\ frames' = (c :> HydrateEntry(res.val)) @@
                            [frames EXCEPT ![p].resChan = rest,
                                           ![p].res = res,
                                           ![p].pc = "recurse"]
               /\ mem' = (c :> EntryMem(res.val)) @@ mem
               /\ UNCHANGED tasks
          [] how = "sequence" ->
               /\ frames' = [frames EXCEPT ![p].resChan = rest,
                                           ![p].res = res,
                                           ![p].pc = "slice",
                                           ![p].swg = Cardinality(
                                             DOMAIN ElemTasks(p, res)),
                                           ![p].sliceResChan = <<>>]
               /\ tasks' = ElemTasks(p, res) @@ tasks
               /\ UNCHANGED mem
          [] OTHER ->
               /\ IF SetPanics(FieldDef(fr.t, res.field).ty, res.val)
                  THEN /\ frames' = [frames EXCEPT ![p].resChan = rest,
                                                   ![p].res = res,
                                                   ![p].pc = "panic"]
                       /\ UNCHANGED mem
                  ELSE /\ frames' = [frames EXCEPT
                                       ![p].resChan = rest,
                                       ![p].err = ApplyErr(fr, res)]
                       /\ mem' = [mem EXCEPT ![p] = ApplyMem(fr, res, mem[p])]
               /\ UNCHANGED tasks
  /\ UNCHANGED <<cap, tag, finders, flowChan>>

\* The recursive h.Hydrate(res.val) has returned: its error ends the
\* iteration, otherwise the value goes on to the kind check.
RecurseReturn(p) ==
  /\ p \in DOMAIN frames
  /\ frames[p].pc = "recurse"
  /\ LET fr == frames[p]
         c == Child(p, fr.res.field, 0)
     IN /\ frames[c].pc = "done"
        /\ IF frames[c].err # NoErr
           THEN /\ frames' = [frames EXCEPT ![p].err = frames[c].err,
                                            ![p].res = NoRes,
                                            ![p].pc = "range"]
                /\ UNCHANGED mem
           ELSE IF SetPanics(FieldDef(fr.t, fr.res.field).ty, fr.res.val)
           THEN /\ frames' = [frames EXCEPT ![p].pc = "panic"]
                /\ UNCHANGED mem
           ELSE /\ frames' = [frames EXCEPT ![p].err = ApplyErr(fr, fr.res),
                                            ![p].res = NoRes,
                                            ![p].pc = "range"]
                /\ mem' = [mem EXCEPT ![p] = ApplyMem(fr, fr.res, mem[p])]
  /\ UNCHANGED <<cap, tag, finders, flowChan, tasks>>

\* An element goroutine takes a gate slot and calls
\* h.Hydrate(resVal.Index(i).Interface()).
ElemAcquire(tk) ==
  /\ tk \in DOMAIN tasks
  /\ tasks[tk].kind = "elem"
  /\ tasks[tk].pc = "wait"
  /\ flowChan < cap
  /\ LET el == Index(frames[tk[1]].res.val, tk[3])
         c == Child(tk[1], tk[2], tk[3])
     IN /\ frames' = (c :> HydrateEntry(el)) @@ frames
        /\ mem' = (c :> EntryMem(el)) @@ mem
        /\ tasks' = [tasks EXCEPT ![tk].pc = "call", ![tk].in = el]
  /\ flowChan' = flowChan + 1
  /\ UNCHANGED <<cap, tag, finders>>

\* The element's Hydrate has returned; its error is sent on sliceResChan.
ElemPublish(tk) ==
  /\ tk \in DOMAIN tasks
  /\ tasks[tk].kind = "elem"
  /\ tasks[tk].pc = "call"
  /\ LET c == Child(tk[1], tk[2], tk[3])
         res == [field |-> "", val |-> NilIface, err |-> frames[c].err]
     IN /\ frames[c].pc = "done"
        /\ tasks' = [tasks EXCEPT ![tk].pc = "sent", ![tk].res = res]
        /\ frames' = [frames EXCEPT ![tk[1]].sliceResChan =
                        Append(frames[tk[1]].sliceResChan, res)]
  /\ UNCHANGED <<cap, tag, finders, flowChan, mem>>

\* The element goroutine gives its slot back and ends (swg.Done).
ElemRelease(tk) ==
  /\ tk \in DOMAIN tasks
  /\ tasks[tk].kind = "elem"
  /\ tasks[tk].pc = "sent"
  /\ flowChan' = flowChan - 1
  /\ tasks' = [tasks EXCEPT ![tk].pc = "done"]
  /\ frames' = [frames EXCEPT ![tk[1]].swg = frames[tk[1]].swg - 1]
  /\ UNCHANGED <<cap, tag, finders, mem>>

\* `for sliceRes := range sliceResChan` receives one element's error.
SliceRecv(p) ==
  /\ p \in DOMAIN frames
  /\ frames[p].pc = "slice"
  /\ frames[p].sliceResChan # <<>>
  /\ LET r == Head(frames[p].sliceResChan)
     IN frames' = [frames EXCEPT
                     ![p].sliceResChan = Tail(frames[p].sliceResChan),
                     ![p].err = IF r.err # NoErr THEN r.err ELSE frames[p].err]
  /\ UNCHANGED <<cap, tag, finders, flowChan, tasks, mem>>

\* Every element goroutine is done (swg.Wait() returns and sliceResChan is
\* closed) and sliceResChan is drained: the range over it ends and the
\* sequence goes on to the kind check.
SliceEnd(p) ==
  /\ p \in DOMAIN frames
  /\ frames[p].pc = "slice"
  /\ frames[p].sliceResChan = <<>>
  /\ frames[p].swg = 0
  /\ LET fr == frames[p]
     IN IF SetPanics(FieldDef(fr.t, fr.res.field).ty, fr.res.val)
        THEN /\ frames' = [frames EXCEPT ![p].pc = "panic"]
             /\ UNCHANGED mem
        ELSE /\ frames' = [frames EXCEPT ![p].err = ApplyErr(fr, fr.res),
                                         ![p].res = NoRes,
                                         ![p].pc = "range"]
             /\ mem' = [mem EXCEPT ![p] = ApplyMem(fr, fr.res, mem[p])]
  /\ UNCHANGED <<cap, tag, finders, flowChan, tasks>>

\* Every field goroutine is done (wg.Wait() returns and resChan is closed)
\* and resChan is drained: the range over it ends and Hydrate returns err.
Return(p) ==
  /\ p \in DOMAIN frames
  /\ frames[p].pc = "range"
  /\ frames[p].resChan = <<>>
  /\ frames[p].wg = 0
  /\ frames' = [frames EXCEPT ![p].pc = "done"]
  /\ UNCHANGED <<cap, tag, finders, flowChan, tasks, mem>>

\* A goroutine or a collector has panicked: nothing recovers it, so the
\* program ends and no goroutine takes another step.
Aborted ==
  \/ \E tk \in DOMAIN tasks : tasks[tk].pc = "panic"
  \/ \E p \in DOMAIN frames : frames[p].pc = "panic"

\* One step of a call of Hydrate or of one of its goroutines.
Step ==
  \/ \E p \in DOMAIN frames :
       /\ ~Aborted
       /\ \/ LoopStep(p)
          \/ RecvResult(p)
          \/ RecurseReturn(p)
          \/ SliceRecv(p)
          \/ SliceEnd(p)
          \/ Return(p)
  \/ \E tk \in DOMAIN tasks :
       /\ ~Aborted
       /\ \/ Acquire(tk)
          \/ Publish(tk)
          \/ Release(tk)
          \/ ElemAcquire(tk)
          \/ ElemPublish(tk)
          \/ ElemRelease(tk)

Next ==
  \/ \E r \in Registrations : Finder(r[1], r[2])
  \/ \E obj \in Roots : Hydrate(obj)
  \/ Step

Spec == Init /\ [][Next]_vars

\* ------------------------------------------------------------- properties
\* The goroutines between their send on flowChan and their receive from it.
Holders == {tk \in DOMAIN tasks : tasks[tk].pc \in {"call", "sent", "panic"}}
\* The goroutines whose method or finder call is in flight.
Calling ==
  {tk \in DOMAIN tasks : tasks[tk].kind # "elem" /\ tasks[tk].pc = "call"}
\* The field goroutines of the call on the object at p.
FieldTasks(p) ==
  {tk \in DOMAIN tasks : tk[1] = p /\ tasks[tk].kind # "elem"}
\* The values the fields of the object at p had when Hydrate was called.
Orig(p) == EntryMem(frames[p].obj)
Returned(p) == p \in DOMAIN frames /\ frames[p].pc = "done"

\* C1: the goroutines holding a gate slot, field and element goroutines of
\* every depth together, never number more than the capacity the hydrator
\* was built with (the Concurrency option's, or 10), the gate counts exactly
\* them, and every method or finder call in flight belongs to one of them.
C1_GateBound ==
  /\ cap \in (1..MaxCap) \cup {DefaultConcurrency}
  /\ Cardinality(Holders) <= cap
  /\ flowChan = Cardinality(Holders)
  /\ Calling \subseteq Holders
  /\ Cardinality(Calling) <= cap

\* The gate is full with an element goroutine and a field goroutine of a
\* deeper call holding slots while another goroutine waits for one.
C1_Witness ==
  /\ flowChan = cap
  /\ \E a \in Holders, b \in Calling :
       /\ tasks[a].kind = "elem"
       /\ Len(b[1]) > Len(a[1])
  /\ \E w \in DOMAIN tasks : tasks[w].pc = "wait"

\* The index of the first field of the object at p at which the loop over
\* the fields breaks (embedded, object not settable, or a kind that is not
\* pointer, slice or array), or NumField+1 when it runs to the end.
BreakIndex(p) ==
  LET fr == frames[p]
      js == {j \in 1..NumField(fr.t) :
               Dispatch(fr, StructFields(fr.t)[j], finders)
                 \in {"anonymous", "kind"}}
  IN IF js = {} THEN NumField(fr.t) + 1
     ELSE CHOOSE j \in js : \A k \in js : j <= k

\* The result of field goroutine tk was not assigned to its field: it came
\* with an error, the field cannot be set, the record it points to failed
\* to hydrate, or its kind is not the field's.
Failed(tk) ==
  LET fr == frames[tk[1]]
      res == tasks[tk].res
      c == Child(tk[1], tk[2], 0)
  IN \/ res.err # NoErr
     \/ ~CanSet(fr, tk[2])
     \/ IsRecordPtr(res.val) /\ c \in DOMAIN frames /\ frames[c].err # NoErr
     \/ ~KindMatches(FieldDef(fr.t, tk[2]).ty, res.val)

\* Some element of the sequence field goroutine tk resolved failed to
\* hydrate.
ElemFailed(tk) ==
  \E i \in 1..tasks[tk].res.val.n :
    LET c == Child(tk[1], tk[2], i)
    IN c \in DOMAIN frames /\ frames[c].err # NoErr

\* Field goroutine tk of a call by pointer ran the finder of a pointer
\* field whose directive names a sibling, and that finder returns a pointer
\* and no error for the sibling's value.
PtrFinderTask(tk) ==
  LET fr == frames[tk[1]]
      sf == FieldDef(fr.t, tk[2])
  IN /\ tasks[tk].kind = "finder"
     /\ fr.byptr /\ sf.exp
     /\ Kind(sf.ty) = "ptr" /\ Len(sf.ty) = 2
     /\ sf.tag \in FieldNames(fr.t)
     /\ tasks[tk].fn = finders[TypeKey(Elem(sf.ty))]
     /\ tasks[tk].fn[1] = "ptr"
     /\ FinderCall(tasks[tk].fn, Orig(tk[1])[sf.tag]).err = NoErr

\* No field of the object of tk other than tk's failed, and the loop over
\* the fields did not break.
NoOtherFails(tk) ==
  /\ BreakIndex(tk[1]) > NumField(frames[tk[1]].t)
  /\ \A o \in FieldTasks(tk[1]) \ {tk} : ~Failed(o) /\ ~ElemFailed(o)

\* C2 as claimed: when Hydrate returns, a pointer field whose directive
\* names a sibling S and whose type has a finder returning a pointer and no
\* error holds finder(S), and the error is nil if no other field failed.
C2_FinderAssigns ==
  \A tk \in DOMAIN tasks :
    (tasks[tk].kind = "finder" /\ Returned(tk[1]) /\ PtrFinderTask(tk)) =>
      LET p == tk[1]
          sf == FieldDef(frames[p].t, tk[2])
      IN /\ mem[p][tk[2]] = FinderCall(tasks[tk].fn, Orig(p)[sf.tag]).val
         /\ NoOtherFails(tk) => frames[p].err = NoErr

\* C2 (amended): ... holds finder(S) and the error is nil if no other field
\* failed, provided the recursive Hydrate of the record the finder returned
\* gave no error; if it gave one, the field keeps its original value and
\* Hydrate returns a non-nil error.
C2_FinderAssignsHydrated ==
  \A tk \in DOMAIN tasks :
    (tasks[tk].kind = "finder" /\ Returned(tk[1]) /\ PtrFinderTask(tk)) =>
      LET p == tk[1]
          sf == FieldDef(frames[p].t, tk[2])
          c == Child(p, tk[2], 0)
      IN /\ Returned(c)
         /\ frames[c].err = NoErr =>
              /\ mem[p][tk[2]] = FinderCall(tasks[tk].fn, Orig(p)[sf.tag]).val
              /\ NoOtherFails(tk) => frames[p].err = NoErr
         /\ frames[c].err # NoErr =>
              /\ mem[p][tk[2]] = Orig(p)[tk[2]]
              /\ frames[p].err # NoErr

\* Hydrate(&A{ID: 1, BID: 123}) has returned nil with B = &B{ID: 123}, the
\* finder registered for B applied to BID.
C2_Witness ==
  /\ Returned(Root)
  /\ frames[Root].t = "A"
  /\ frames[Root].err = NoErr
  /\ <<Root, "B", 0>> \in DOMAIN tasks
  /\ PtrFinderTask(<<Root, "B", 0>>)
  /\ mem[Root]["B"] = PtrTo("B", SiblingValue)

\* C3: a field whose directive is the name of a method of the object is
\* resolved by that method, called with the object itself, and by nothing
\* else: its goroutine never runs a finder, also when one is registered for
\* the field's element type, and what it sends is what the method returned.
C3_MethodWins ==
  /\ \A tk \in DOMAIN tasks :
       LET fr == frames[tk[1]]
           task == tasks[tk]
       IN (task.kind # "elem"
             /\ MethodByName(fr.t, fr.byptr, FieldDef(fr.t, tk[2]).tag)) =>
            /\ task.kind = "method"
            /\ task.fn = NoFinder
            /\ task.pc # "wait" => task.in = fr.obj
            /\ task.pc \in {"sent", "done"} =>
                 /\ task.res.field = tk[2]
                 /\ task.res.val = MethodCall(fr.t, task.tag, mem[tk[1]]).val
                 /\ task.res.err = MethodCall(fr.t, task.tag, mem[tk[1]]).err
  /\ \A p \in DOMAIN frames :
       Returned(p) =>
         \A j \in 1..NumField(frames[p].t) :
           LET sf == StructFields(frames[p].t)[j]
           IN (j < BreakIndex(p) /\ ~Untagged(sf)
                 /\ MethodByName(frames[p].t, frames[p].byptr, sf.tag)) =>
                /\ <<p, sf.name, 0>> \in DOMAIN tasks
                /\ tasks[<<p, sf.name, 0>>].pc = "done"

\* A.C has the directive GetC, a method of *A, a finder is registered for
\* C, and Hydrate has returned with C = &C{ID: 3}, GetC's result.
C3_Witness ==
  /\ Returned(Root)
  /\ frames[Root].t = "A"
  /\ finders[TypeKey(Named("C"))] # NoFinder
  /\ <<Root, "C", 0>> \in DOMAIN tasks
  /\ tasks[<<Root, "C", 0>>].kind = "method"
  /\ mem[Root]["C"] = PtrTo("C", 3)

\* C4: a result that carries an error is never assigned, whatever value
\* came with it: the field keeps its original value, Hydrate returns a
\* non-nil error, every other field goroutine of the object has run to its
\* end, and each of their results that did not fail is assigned.
C4_ErrorDiscardsValue ==
  \A tk \in DOMAIN tasks :
    LET p == tk[1]
    IN (tasks[tk].kind # "elem" /\ tasks[tk].pc \in {"sent", "done"}
          /\ tasks[tk].res.err # NoErr) =>
         /\ mem[p][tk[2]] = Orig(p)[tk[2]]
         /\ Returned(p) =>
              /\ frames[p].err # NoErr
              /\ \A o \in FieldTasks(p) \ {tk} :
                   /\ tasks[o].pc = "done"
                   /\ ~Failed(o) => mem[p][o[2]] = tasks[o].res.val

\* Hydrate(&Partial{ID: 1}) has returned: GetError gave &C{ID: 1} with an
\* error and C is still nil, while D holds GetD's &D{ID: 4}.
C4_Witness ==
  /\ Returned(Root)
  /\ frames[Root].t = "Partial"
  /\ <<Root, "C", 0>> \in DOMAIN tasks
  /\ tasks[<<Root, "C", 0>>].res.err = ErrHydration
  /\ tasks[<<Root, "C", 0>>].res.val = PtrTo("C", 1)
  /\ mem[Root]["C"] = Zero(PtrT(Named("C")))
  /\ mem[Root]["D"] = PtrTo("D", 4)
  /\ frames[Root].err # NoErr

\* Every field goroutine of the call at p has ended, and each result that
\* did not fail is in its field.
AllApplied(p) ==
  /\ frames[p].resChan = <<>>
  /\ \A o \in FieldTasks(p) :
       /\ tasks[o].pc = "done"
       /\ ~Failed(o) => mem[p][o[2]] = tasks[o].res.val

\* C5: a field holds a resolved pointer to a record only after the
\* recursive Hydrate of that record has returned without error, with the
\* record's own field goroutines ended and their results applied; and when
\* the recursive Hydrate returned an error, the parent Hydrate returns a
\* non-nil error with the parent field at its original value.
C5_RecursionBeforeAssign ==
  \A p \in DOMAIN frames :
    \A f \in FieldNames(frames[p].t) :
      LET c == Child(p, f, 0)
      IN /\ (mem[p][f] # Orig(p)[f] /\ IsRecordPtr(mem[p][f])) =>
              /\ Returned(c)
              /\ frames[c].obj = mem[p][f]
              /\ frames[c].err = NoErr
              /\ AllApplied(c)
         /\ (Returned(p) /\ c \in DOMAIN frames /\ frames[c].err # NoErr) =>
              /\ frames[p].err # NoErr
              /\ mem[p][f] = Orig(p)[f]

\* A.C already holds GetC's &C{ID: 3} while Hydrate is still at work on A,
\* and that C has its D and DD filled in.
C5_Witness ==
  /\ Root \in DOMAIN frames
  /\ frames[Root].t = "A"
  /\ ~Returned(Root)
  /\ mem[Root]["C"] = PtrTo("C", 3)
  /\ mem[Child(Root, "C", 0)]["D"] = PtrTo("D", 4)
  /\ mem[Child(Root, "C", 0)]["DD"] = SeqV(SliceT(PtrT(Named("D"))), 5, 1)

\* C6: for a resolved slice or array of records or of pointers to records,
\* Hydrate runs on an element only in a goroutine of its own that holds a
\* gate slot; the field is assigned only after every element's Hydrate has
\* returned and every element goroutine has ended; when Hydrate returns,
\* every element has been hydrated with each of its results that did not
\* fail assigned, whatever happened to the other elements, and the error
\* is non-nil if an element failed.
C6_SequenceElements ==
  \A tk \in DOMAIN tasks :
    LET p == tk[1]
        f == tk[2]
        res == tasks[tk].res
        elems == {<<p, f, i>> : i \in 1..res.val.n}
    IN (tasks[tk].kind # "elem" /\ tasks[tk].pc \in {"sent", "done"}
          /\ res.err = NoErr /\ CanSet(frames[p], f) /\ IsRecordSeq(res.val)) =>
         /\ \A e \in elems :
              LET c == Child(p, f, e[3])
              IN c \in DOMAIN frames =>
                   /\ e \in DOMAIN tasks
                   /\ tasks[e].pc \in {"call", "sent", "done"}
                   /\ frames[c].obj = Index(res.val, e[3])
                   /\ ~Returned(c) => e \in Holders
         /\ mem[p][f] # Orig(p)[f] =>
              \A e \in elems :
                /\ e \in DOMAIN tasks /\ tasks[e].pc = "done"
                /\ Returned(Child(p, f, e[3]))
         /\ Returned(p) =>
              /\ \A e \in elems :
                   /\ Returned(Child(p, f, e[3]))
                   /\ AllApplied(Child(p, f, e[3]))
              /\ ElemFailed(tk) => frames[p].err # NoErr
              /\ KindMatches(FieldDef(frames[p].t, f).ty, res.val) =>
                   mem[p][f] = res.val

\* Hydrate(&S{ID: 2}) has returned an error: GetEs gave two elements, the
\* first failed to hydrate, the second has its D, and Es is assigned.
C6_Witness ==
  /\ Returned(Root)
  /\ frames[Root].t = "S"
  /\ frames[Root].err = ErrRecursive
  /\ mem[Root]["Es"] = SeqV(SliceT(PtrT(Named("E"))), 0, 2)
  /\ frames[Child(Root, "Es", 1)].err = ErrRecursive
  /\ frames[Child(Root, "Es", 2)].err = NoErr
  /\ mem[Child(Root, "Es", 2)]["D"] = PtrTo("D", 4)

\* C7 as claimed: when Hydrate returns, a result without error for a field
\* that can be set is in the field exactly when its kind is the field's,
\* and when the kinds differ the field has its original value and the
\* error is non-nil.
C7_KindDecides ==
  \A tk \in DOMAIN tasks :
    LET p == tk[1]
        res == tasks[tk].res
        fty == FieldDef(frames[p].t, tk[2]).ty
    IN (tasks[tk].kind # "elem" /\ Returned(p) /\ res.err = NoErr
          /\ CanSet(frames[p], tk[2])) =>
         /\ Kind(fty) = Kind(res.val.ty) => mem[p][tk[2]] = res.val
         /\ Kind(fty) # Kind(res.val.ty) =>
              /\ mem[p][tk[2]] = Orig(p)[tk[2]]
              /\ frames[p].err # NoErr

\* C7 (amended): when Hydrate returns, a result without error for a field
\* that can be set is in the field if it has the field's type and, when it
\* points to a record, the recursive Hydrate of that record gave no error;
\* the field has its original value and the error is non-nil if the kinds
\* differ or that recursive Hydrate gave an error.
C7_KindDecidesHydrated ==
  \A tk \in DOMAIN tasks :
    LET p == tk[1]
        res == tasks[tk].res
        fty == FieldDef(frames[p].t, tk[2]).ty
        c == Child(p, tk[2], 0)
        recFailed == IsRecordPtr(res.val) /\ frames[c].err # NoErr
    IN (tasks[tk].kind # "elem" /\ Returned(p) /\ res.err = NoErr
          /\ CanSet(frames[p], tk[2])) =>
         /\ (res.val.ty = fty /\ ~recFailed) => mem[p][tk[2]] = res.val
         /\ (Kind(fty) # Kind(res.val.ty) \/ recFailed) =>
              /\ mem[p][tk[2]] = Orig(p)[tk[2]]
              /\ frames[p].err # NoErr

\* Hydrate(&A{ID: 1, BID: 123}) has returned the kind-mismatch error: the
\* finder gave a B for the *B field, which is still nil, and C is assigned.
C7_Witness ==
  /\ Returned(Root)
  /\ frames[Root].t = "A"
  /\ <<Root, "B", 0>> \in DOMAIN tasks
  /\ tasks[<<Root, "B", 0>>].res = [field |-> "B", val |-> StructV("B", SiblingValue), err |-> NoErr]
  /\ mem[Root]["B"] = Zero(PtrT(Named("B")))
  /\ mem[Root]["C"] = PtrTo("C", 3)
  /\ frames[Root].err = ErrMismatch

\* The fields of the object at p that are embedded and carry a directive.
EmbeddedTagged(p) ==
  {j \in 1..NumField(frames[p].t) :
     StructFields(frames[p].t)[j].anon /\ ~Untagged(StructFields(frames[p].t)[j])}

\* C8 as claimed: Hydrate on an object with an annotated embedded field
\* returns a non-nil error and resolves or assigns no field of the object.
C8_EmbeddedBlocksAll ==
  \A p \in DOMAIN frames :
    EmbeddedTagged(p) # {} =>
      /\ Returned(p) => frames[p].err # NoErr
      /\ FieldTasks(p) = {}
      /\ mem[p] = Orig(p)

\* C8 (amended): Hydrate on an object with an annotated embedded field
\* returns a non-nil error, and neither the embedded field nor any field
\* declared after it is resolved or assigned; fields declared before it
\* that were dispatched are resolved, and assigned when they do not fail.
C8_EmbeddedBlocksLater ==
  \A p \in DOMAIN frames :
    \A j \in EmbeddedTagged(p) :
      /\ Returned(p) => frames[p].err # NoErr /\ AllApplied(p)
      /\ \A k \in j..NumField(frames[p].t) :
           LET g == StructFields(frames[p].t)[k].name
           IN /\ <<p, g, 0>> \notin DOMAIN tasks
              /\ mem[p][g] = Orig(p)[g]

\* Hydrate(&Embedded{ID: 1, BID: 123}) has returned the anonymous-field
\* error with a finder registered for B and GetC a method: D, declared
\* before the embedded C, is assigned, and C and B are not.
C8_Witness ==
  /\ Returned(Root)
  /\ frames[Root].t = "Embedded"
  /\ frames[Root].byptr
  /\ finders[TypeKey(Named("B"))] # NoFinder
  /\ frames[Root].err = ErrAnonymous
  /\ mem[Root]["D"] = PtrTo("D", 4)
  /\ mem[Root]["C"] = Zero(PtrT(Named("C")))
  /\ mem[Root]["B"] = Zero(PtrT(Named("B")))

\* C9: Hydrate on an object with an annotated unexported field never
\* assigns that field and returns a non-nil error, by value and by pointer.
C9_PrivateFieldErrors ==
  \A p \in DOMAIN frames :
    \A f \in FieldNames(frames[p].t) :
      (~FieldDef(frames[p].t, f).exp /\ ~Untagged(FieldDef(frames[p].t, f))) =>
        /\ mem[p][f] = Orig(p)[f]
        /\ Returned(p) => frames[p].err # NoErr

\* A finder is registered for type ty: a registration made with a sample
\* of that type is the one the map holds.
RegisteredFor(ty) ==
  \E r \in Registrations :
    IndirectT(r[1].ty) = ty /\ finders[TypeKey(ty)] = r[2]

\* C10: for an object passed by pointer, a pointer, slice or array field
\* whose directive names no method and whose element type has no finder
\* registered is not dispatched and keeps its value, and Hydrate returns
\* nil when nothing else failed.
C10_NoResolverNoEffect ==
  \A p \in DOMAIN frames :
    \A j \in 1..NumField(frames[p].t) :
      LET sf == StructFields(frames[p].t)[j]
      IN (frames[p].byptr /\ ~Untagged(sf) /\ ~sf.anon
            /\ Kind(sf.ty) \in {"ptr", "slice", "array"}
            /\ ~MethodByName(frames[p].t, TRUE, sf.tag)
            /\ ~RegisteredFor(Elem(sf.ty))) =>
           /\ <<p, sf.name, 0>> \notin DOMAIN tasks
           /\ mem[p][sf.name] = Orig(p)[sf.name]
           /\ (Returned(p) /\ BreakIndex(p) > NumField(frames[p].t)
                 /\ \A o \in FieldTasks(p) : ~Failed(o) /\ ~ElemFailed(o)) =>
                frames[p].err = NoErr

\* Field goroutine tk called a method that does not return a value and an
\* error.
BadSignature(tk) ==
  /\ tasks[tk].kind = "method"
  /\ NumOut(frames[tk[1]].t, tasks[tk].tag) # 2

\* C11: when a field's directive names a method without the resolver
\* signature, the goroutine that calls it does not abort the program, and
\* Hydrate returns a non-nil error.
C11_BadSignatureErrors ==
  \A tk \in DOMAIN tasks :
    BadSignature(tk) =>
      /\ tasks[tk].pc # "panic"
      /\ Returned(tk[1]) => frames[tk[1]].err # NoErr

\* The calls on a root that is neither a record nor a pointer to one.
InvalidRoot(p) == Kind(IndirectT(frames[p].obj.ty)) # "struct"

\* C12: Hydrate on a root that is neither a record nor a pointer to one has
\* returned ErrInvalidObject as soon as it is called: it has enumerated no
\* field, started no goroutine, taken no gate slot and touched no memory.
C12_InvalidRoot ==
  \A p \in DOMAIN frames :
    InvalidRoot(p) =>
      /\ Returned(p)
      /\ frames[p].err = ErrInvalidObject
      /\ frames[p].i = 1 /\ frames[p].wg = 0 /\ frames[p].resChan = <<>>
      /\ \A tk \in DOMAIN tasks : tk[1] # p
      /\ mem[p] = Empty
      /\ p = Root => tasks = Empty /\ flowChan = 0 /\ DOMAIN frames = {Root}

\* Hydrate was called with a pointer to a pointer to a record and has
\* returned ErrInvalidObject.
C12_Witness ==
  /\ Returned(Root)
  /\ frames[Root].obj = Val(PtrT(PtrT(Named("A"))), 1, 0, FALSE)
  /\ frames[Root].err = ErrInvalidObject
  /\ flowChan = 0

\* C13: the finder a field's goroutine runs, the one the lookup returned
\* when the field was enumerated, was registered with a sample of the
\* field's element type, also when that element type is unnamed.
C13_LookupByType ==
  \A tk \in DOMAIN tasks :
    tasks[tk].kind = "finder" =>
      \E r \in Registrations :
        /\ IndirectT(r[1].ty) = Elem(FieldDef(frames[tk[1]].t, tk[2]).ty)
        /\ r[2] = tasks[tk].fn

\* C14: while the top-level Hydrate has not returned (and no goroutine has
\* panicked), some call or goroutine of its tree can take a step: the gate
\* is never full of goroutines that wait for slots their own recursive
\* Hydrate needs. Every step brings the call nearer its end, so this is
\* what termination under fair scheduling comes to.
C14_NoGateDeadlock ==
  (Root \in DOMAIN frames /\ ~Returned(Root) /\ ~Aborted) => ENABLED Step

\* The input every started finder goroutine got is the value its sibling
\* field had when Hydrate was called on the object.
FinderInputIsOriginal ==
  \A tk \in DOMAIN tasks :
    (tasks[tk].kind = "finder" /\ tasks[tk].pc # "wait") =>
      tasks[tk].in = Orig(tk[1])[tasks[tk].tag]

\* No step changes a field of an object while a method called on that
\* object is running.
MethodObjectStable ==
  \A tk \in DOMAIN tasks :
    (tasks[tk].kind = "method" /\ tasks[tk].pc = "call") =>
      mem'[tk[1]] = mem[tk[1]]

\* C15: no goroutine of an object reads the object while its collector
\* writes a field: a finder's input is the value its sibling field had when
\* Hydrate was called, also when that sibling is itself resolved in the
\* same call, and the object of a running method is not modified.
C15_NoRace == []FinderInputIsOriginal /\ [][MethodObjectStable]_vars

\* The collector of the call at p has applied a result: it has assigned a
\* field or is hydrating a resolved value.
Applying(p) ==
  frames[p].pc \in {"recurse", "slice"} \/ mem[p] # Orig(p)

\* C16: the collector of an object applies no result (assigns no field and
\* starts no recursive hydration) until every dispatched field goroutine of
\* the object has completed its call and sent its result.
C16_CollectAfterAll ==
  \A p \in DOMAIN frames :
    Applying(p) =>
      \A tk \in FieldTasks(p) : tasks[tk].pc \in {"sent", "done"}

\* C17: for a field that carries a directive and is embedded or unexported,
\* no goroutine is started for it nor for any field declared after it, by
\* pointer as by value.
C17_StructuralFirst ==
  \A p \in DOMAIN frames :
    \A j \in 1..NumField(frames[p].t) :
      LET sf == StructFields(frames[p].t)[j]
      IN (~Untagged(sf) /\ (sf.anon \/ ~sf.exp)) =>
           \A k \in j..NumField(frames[p].t) :
             <<p, StructFields(frames[p].t)[k].name, 0>> \notin DOMAIN tasks

\* The kind-mismatch error of result res for the call fr, if any.
MismatchOf(fr, res) ==
  IF Kind(FieldDef(fr.t, res.field).ty) # Kind(res.val.ty)
  THEN ErrMismatch ELSE NoErr

\* The error of the event the collector of the call at p observes at its
\* next step, NoErr if that event is no failure.
Observes(p) ==
  LET fr == frames[p]
  IN IF fr.pc = "range" /\ fr.resChan # <<>>
     THEN LET res == Head(fr.resChan)
          IN IF res.err # NoErr THEN res.err
             ELSE IF ~CanSet(fr, res.field) THEN ErrPrivate
             ELSE IF IsRecordPtr(res.val) \/ IsRecordSeq(res.val) THEN NoErr
             ELSE MismatchOf(fr, res)
     ELSE IF fr.pc = "recurse"
     THEN IF frames[Child(p, fr.res.field, 0)].err # NoErr
          THEN frames[Child(p, fr.res.field, 0)].err
          ELSE MismatchOf(fr, fr.res)
     ELSE IF fr.pc = "slice"
     THEN IF fr.sliceResChan # <<>> THEN Head(fr.sliceResChan).err
          ELSE MismatchOf(fr, fr.res)
     ELSE NoErr

\* This step is one of the collector of the call at p: it takes a result
\* from resChan or sliceResChan, or ends a recursion, a sequence or the call,
\* and goes on.
Collects(p) ==
  /\ frames[p].pc \in {"range", "recurse", "slice"}
  /\ frames'[p].pc # "panic"
  /\ \/ Len(frames'[p].resChan) < Len(frames[p].resChan)
     \/ Len(frames'[p].sliceResChan) < Len(frames[p].sliceResChan)
     \/ frames'[p].pc # frames[p].pc

\* Every step of a collector leaves the error at the error of the failing
\* event it observed, or as it was if it observed none.
LastErrorWins ==
  \A p \in DOMAIN frames :
    Collects(p) =>
      frames'[p].err = IF Observes(p) # NoErr THEN Observes(p)
                       ELSE frames[p].err

\* What Hydrate returned for the call at p is nil exactly when the loop over
\* the fields did not break and no result failed, and the error of the
\* break when the loop broke and no result failed.
NilIffNoFailure ==
  \A p \in DOMAIN frames :
    (Returned(p) /\ ~InvalidRoot(p)) =>
      LET broke == BreakIndex(p) <= NumField(frames[p].t)
          failed == \E o \in FieldTasks(p) : Failed(o) \/ ElemFailed(o)
      IN /\ frames[p].err = NoErr <=> (~broke /\ ~failed)
         /\ (broke /\ ~failed) => frames[p].err \in {ErrAnonymous, ErrKind}

\* C18: the error Hydrate returns is the error of the last failing event
\* its collector observed, or the error of the structural violation if it
\* observed none afterwards; a later success never clears it, so Hydrate
\* returns nil if and only if there was no violation and no failure.
C18_LastErrorWins == []NilIffNoFailure /\ [][LastErrorWins]_vars

\* Hydrate(&Partial{ID: 1}) has returned the error of GetError although the
\* kind mismatch of M was observed too: GetError's result came last.
C18_Witness ==
  /\ Returned(Root)
  /\ frames[Root].t = "Partial"
  /\ frames[Root].err = ErrHydration
  /\ tasks[<<Root, "M", 0>>].pc = "done"
  /\ mem[Root]["D"] = PtrTo("D", 4)

\* C19: the gate counts exactly the goroutines that took a slot and have not
\* yet given it back, whatever their call returned; a result channel never
\* holds more results than its buffer, so no goroutine blocks on its send
\* while it holds a slot; and when the top-level Hydrate has returned every
\* goroutine of its call tree has ended and the gate is empty.
C19_SlotsReleased ==
  /\ flowChan = Cardinality(Holders)
  /\ \A p \in DOMAIN frames :
       /\ Len(frames[p].resChan) <= NumField(frames[p].t) + 1
       /\ Len(frames[p].sliceResChan) <=
            (IF frames[p].pc = "slice" THEN frames[p].res.val.n ELSE 0)
  /\ \A tk \in DOMAIN tasks :
       (tasks[tk].pc = "done" /\ tasks[tk].kind # "elem") =>
         tasks[tk].res.field = tk[2]
  /\ Returned(Root) =>
       /\ flowChan = 0
       /\ \A tk \in DOMAIN tasks : tasks[tk].pc = "done"

\* Hydrate(&HydrationError{ID: 1}) has returned GetError's error, and the
\* goroutine that called GetError has ended and given its slot back.
C19_Witness ==
  /\ Returned(Root)
  /\ frames[Root].t = "HydrationError"
  /\ frames[Root].byptr
  /\ <<Root, "C", 0>> \in DOMAIN tasks
  /\ tasks[<<Root, "C", 0>>].res.err = ErrHydration
  /\ tasks[<<Root, "C", 0>>].pc = "done"
  /\ flowChan = 0

\* C20: for a field with a directive whose kind is not pointer, slice or
\* array, no goroutine is started for the field nor for any field declared
\* after it, those fields keep their values, and Hydrate returns a non-nil
\* error.
C20_NonPointerBreaks ==
  \A p \in DOMAIN frames :
    \A j \in 1..NumField(frames[p].t) :
      LET sf == StructFields(frames[p].t)[j]
      IN (~Untagged(sf) /\ Kind(sf.ty) \notin {"ptr", "slice", "array"}) =>
           /\ \A k \in j..NumField(frames[p].t) :
                LET g == StructFields(frames[p].t)[k].name
                IN /\ <<p, g, 0>> \notin DOMAIN tasks
                   /\ mem[p][g] = Orig(p)[g]
           /\ Returned(p) => frames[p].err # NoErr

\* Hydrate(&NonPointerMid{ID: 1}) has returned the kind error: D, declared
\* before the int field C, is assigned, C and E are untouched although GetC
\* and GetD are methods.
C20_Witness ==
  /\ Returned(Root)
  /\ frames[Root].t = "NonPointerMid"
  /\ frames[Root].err = ErrKind
  /\ mem[Root]["D"] = PtrTo("D", 4)
  /\ mem[Root]["C"] = IntV(SiblingValue)
  /\ mem[Root]["E"] = Zero(PtrT(Named("D")))

\* The fields of the object at p that carry a directive.
Directives(p) ==
  {j \in 1..NumField(frames[p].t) : ~Untagged(StructFields(frames[p].t)[j])}

\* C21: a call of Hydrate on a record passed by value starts no goroutine
\* (so it invokes no method or finder and takes no gate slot) and changes
\* no field; it returns a non-nil error if a field of the record carries a
\* directive and nil if none does.
C21_ByValueErrors ==
  \A p \in DOMAIN frames :
    (~frames[p].byptr /\ ~InvalidRoot(p)) =>
      /\ \A tk \in DOMAIN tasks : tk[1] # p
      /\ frames[p].wg = 0 /\ frames[p].resChan = <<>>
      /\ mem[p] = Orig(p)
      /\ p = Root => tasks = Empty /\ flowChan = 0
      /\ Returned(p) => (frames[p].err # NoErr <=> Directives(p) # {})

\* Hydrate(A{ID: 1, BID: 123}) has returned an error with a finder
\* registered for B, although GetNP has a value receiver and is in the
\* method set of A.
C21_Witness ==
  /\ Returned(Root)
  /\ frames[Root].obj = StructV("A", 1)
  /\ finders[TypeKey(Named("B"))] # NoFinder
  /\ MethodByName("A", FALSE, "GetNP")
  /\ frames[Root].err = ErrAnonymous

\* Field sf has no directive under the keyword the hydrator was built with,
\* or an empty one, or "-".
NoDirective(sf) == sf.key # tag \/ sf.tag \in {"", "-"}

\* The places in resChan of the call at p that hold a result for field f.
Pending(p, f) ==
  {k \in 1..Len(frames[p].resChan) : frames[p].resChan[k].field = f}

\* C22: in a call of Hydrate every field of the object is either untouched
\* (no goroutine, no result, value as it was; so it is for every field
\* without a directive under the hydrator's tag keyword) or the target of
\* one goroutine running one method or finder, which sends at most one
\* result, its own, none of which is left when the call returns, and the
\* field changes only once that result was received, and only to that
\* result's value.
C22_OneAttemptPerField ==
  \A p \in DOMAIN frames :
    \A fields \in {StructFields(frames[p].t)} :
      \A j \in 1..Len(fields) :
        \A sf \in {fields[j]}, tk \in {<<p, fields[j].name, 0>>},
           orig \in {NewField(fields[j], frames[p].obj.id)},
           sent \in {Pending(p, fields[j].name)} :
          /\ NoDirective(sf) => tk \notin DOMAIN tasks
          /\ tk \notin DOMAIN tasks =>
               /\ sent = {}
               /\ frames[p].res.field # sf.name
               /\ mem[p][sf.name] = orig
          /\ tk \in DOMAIN tasks =>
               /\ tasks[tk].kind \in {"method", "finder"}
               /\ Cardinality(sent) <= 1
               /\ \A k \in sent :
                    /\ tasks[tk].pc \in {"sent", "done"}
                    /\ frames[p].resChan[k] = tasks[tk].res
               /\ tasks[tk].pc \in {"wait", "call"} => sent = {}
               /\ mem[p][sf.name] \in {orig, tasks[tk].res.val}
               /\ mem[p][sf.name] # orig =>
                    /\ sent = {}
                    /\ tasks[tk].pc \in {"sent", "done"}
               /\ Returned(p) => tasks[tk].pc = "done" /\ sent = {}

\* A hydrator built with Tag("customTag") has hydrated &Tagged{ID: 1}: C,
\* whose directive is written under customTag, holds GetC's &C{ID: 3}, and
\* ID is as it was.
C22_Witness ==
  /\ Returned(Root)
  /\ tag = "customTag"
  /\ frames[Root].obj = PtrTo("Tagged", 1)
  /\ tasks[<<Root, "C", 0>>].pc = "done"
  /\ mem[Root]["C"] = PtrTo("C", 3)
  /\ mem[Root]["ID"] = IntV(1)
  /\ frames[Root].err = NoErr

\* Result res for a field of type fty is a nil value without an error, a
\* nil pointer, or a value of the field's kind but not of its type.
Unexpected(fty, res) ==
  res.err = NoErr /\ (TypePanics(res.val) \/ SetPanics(fty, res.val))

\* C24: whatever a method or finder returned, the collector does not abort
\* the program; for a nil value without an error, a nil pointer, and a
\* value of the field's kind whose element type is not the field's, the
\* call returns with the field assigned and no error for it, or with the
\* field as it was and a non-nil error.
C24_NeverAborts ==
  \A tk \in DOMAIN tasks :
    LET p == tk[1]
        fty == FieldDef(frames[p].t, tk[2]).ty
        res == tasks[tk].res
    IN (tasks[tk].kind # "elem" /\ tasks[tk].pc \in {"sent", "done"}
          /\ CanSet(frames[p], tk[2]) /\ Unexpected(fty, res)) =>
            /\ frames[p].pc # "panic"
            /\ Returned(p) =>
                 \/ mem[p][tk[2]] = res.val
                 \/ mem[p][tk[2]] = Orig(p)[tk[2]] /\ frames[p].err # NoErr

\* A field of an element of a resolved sequence has been dispatched: some
\* field goroutine belongs to a call made by an element goroutine or below
\* one.
ElemDispatched ==
  \E tk \in DOMAIN tasks :
    /\ tasks[tk].kind # "elem"
    /\ \E k \in 1..Len(tk[1]) : tk[1][k][2] > 0

\* C23: in a call tree where no field of a sequence element is dispatched,
\* for every capacity, while the top-level Hydrate has not returned some
\* call or goroutine of its tree can take a step. Every step brings the
\* call nearer its end, so this is what "every Hydrate call eventually
\* returns under fair scheduling" comes to.
C23_PointerGraphsReturn ==
  (Root \in DOMAIN frames /\ ~Returned(Root) /\ ~ElemDispatched) =>
    ENABLED Step

\* The same with the calls a panic has ended left aside: the gate alone
\* never stops a call tree that nests through resolved pointers only.
PointerGraphsNoGateDeadlock ==
  (Root \in DOMAIN frames /\ ~Returned(Root) /\ ~ElemDispatched
     /\ ~Aborted) => ENABLED Step
====
